---- MODULE Spec2Model ----
(***************************************************************************)
(* A model of rigamajig2's component lifecycle (maya/cmpts/base.py) and of *)
(* its archetype script resolution (maya/builder/core.py).                 *)
(*                                                                         *)
(* Spec         one component instance and its container, driven by the    *)
(*              six phase transitions, testBuild, setStep, loadSettings    *)
(*              and Builder.run                                            *)
(* SpecScripts  getScriptList over a small set of rig files                *)
(* SpecRigData  getRigData and getScriptList on rig-file paths that are    *)
(*              empty, on disk, or not on disk                             *)
(* SpecValidate validateScriptList on lists of entries                     *)
(* SpecArchetypes  findRigFile, getAvailableArchetypes and                 *)
(*              newRigEnviornmentFromArchetype over a small disk           *)
(* SpecInstances  two instances of one component class and the containers  *)
(*              their names select                                         *)
(* SpecNewEnv   newRigEnviornmentFromArchetype on archetypes with script   *)
(*              lists, and getScriptList on the new rig                    *)
(* SpecBuilder  one call of Builder.run, delete_cmpts, find_cmpt or        *)
(*              build_single_cmpt on a Builder with a short cmpt_list      *)
(***************************************************************************)
EXTENDS Integers, Sequences, FiniteSets, TLC

VARIABLES
    cmpt,       \* the component instance, its container and the record of the last call
    session,    \* what has happened to the component since it was constructed
    rigFiles,   \* the rig files on disk: rig name -> its data
    scriptList, \* GetCompleteScriptList.scriptList, the class attribute
    result,     \* what the last getScriptList call returned or raised
    disk,       \* the directories under ARCHETYPES_PATH and the rig environments
    outcome,    \* what the last call on the disk returned or raised
    world,      \* the instances of a component class, the class and the scene
    builder,    \* a Builder: its cmpt_list, the containers in the scene, the last call
    emptied     \* the script directories whose files have been removed: <<rig, directory>>

vars == <<cmpt, session, rigFiles, scriptList, result, disk, outcome, world, builder,
          emptied>>

(***************************************************************************)
(* Bounds of the model.                                                    *)
(***************************************************************************)
MaxCalls == 3

(***************************************************************************)
(* base.py: the build steps.                                               *)
(***************************************************************************)
UNBUILT_STEP == 0
INTIALIZE_STEP == 1
GUIDE_STEP == 2
BUILD_STEP == 3
CONNECT_STEP == 4
FINALIZE_STEP == 5
OPTIMIZE_STEP == 6

Steps == UNBUILT_STEP..OPTIMIZE_STEP
Tags == {"", "tag"}
ParameterKeys == {"enabled", "componentTag"}

(***************************************************************************)
(* The hooks of each phase, in the order the transition calls them.  The   *)
(* component tag of _finalizeComponent is listed last; it is applied only  *)
(* when componentTag is not empty.                                         *)
(***************************************************************************)
InitializeHooks == <<"setInitalData">>
GuideHooks == <<"createJoints", "createBuildGuides">>
BuildHooks == <<"initialHierarchy", "preRigSetup", "rigSetup", "postRigSetup", "setupAnimAttrs">>
ConnectHooks == <<"initConnect", "connect", "postConnect">>
PublishHooks == <<"publishNodes", "publishAttributes">>
FinalizeHooks == <<"finalize", "setAttrs">>
TagHooks == <<"tag">>
OptimizeHooks == <<"optimize">>

(***************************************************************************)
(* The component.  A value of this record is one Base instance together    *)
(* with the state of its container in the scene:                           *)
(*   enabled, componentTag, params, rootHierarchy   instance attributes    *)
(*   hasStep, build_step, meta, tag, active         the container          *)
(*   trace    one entry per phase transition invoked by the last call      *)
(* params[key].wrapped tells whether _componentParameters[key] is the      *)
(* {"value", "dataType"} dictionary defineParameter stores or the bare     *)
(* value _loadComponentParametersToClass puts in its place.                *)
(***************************************************************************)
Wrapped(v) == [value |-> v, wrapped |-> TRUE]
Bare(v) == [value |-> v, wrapped |-> FALSE]

\* Base.__init__: the instance and the container after construction.
NewComponent(enabled, componentTag) ==
    [enabled |-> enabled,
     componentTag |-> componentTag,
     params |-> [enabled |-> Wrapped(enabled), componentTag |-> Wrapped(componentTag)],
     rootHierarchy |-> FALSE,
     hasStep |-> FALSE,
     build_step |-> UNBUILT_STEP,
     meta |-> [enabled |-> enabled, componentTag |-> componentTag],
     tag |-> "",
     active |-> FALSE,
     trace |-> <<>>]

\* Base.getStep: the container's build_step attribute, 0 while it does not exist.
getStep(c) == IF c.hasStep THEN c.build_step ELSE 0

\* Base.setStep: creates the attribute when it is missing, then writes it.
setStep(c, step) == [c EXCEPT !.hasStep = TRUE, !.build_step = step]

\* Base._loadComponentParametersToClass: every parameter the container's
\* metadata holds (c.meta, written by defineParameter and loadSettings) is
\* written to the instance attribute and, bare, into _componentParameters.
loadComponentParametersToClass(c) ==
    LET data == c.meta IN
    [c EXCEPT !.enabled = data.enabled,
              !.componentTag = data.componentTag,
              !.params = [key \in ParameterKeys |-> Bare(data[key])]]

(***************************************************************************)
(* Hooks.  A frame is the component while a transition runs, the hooks     *)
(* invoked so far and whether one of them has raised.  Input f numbers the *)
(* hook that raises (0: none); Base.publishNodes raises on its own when    *)
(* initialHierarchy never set self.rootHierarchy.                          *)
(***************************************************************************)
Frame(c) == [c |-> c, hooks |-> <<>>, raised |-> FALSE, failed |-> ""]

HookEffect(c, h) ==
    CASE h = "initialHierarchy" -> [c EXCEPT !.rootHierarchy = TRUE]
      [] h = "tag" -> [c EXCEPT !.tag = c.componentTag]
      [] OTHER -> c

HookRaises(c, h) == h = "publishNodes" /\ ~c.rootHierarchy

\* CallHook with the exception of an earlier hook caught: the next hook is called.
CallHookResumed(fr, h, fails) ==
    IF fails \/ HookRaises(fr.c, h)
    THEN [fr EXCEPT !.hooks = Append(@, h), !.raised = TRUE, !.failed = h]
    ELSE [fr EXCEPT !.hooks = Append(@, h), !.c = HookEffect(fr.c, h)]

\* One hook call of a transition: not reached once an earlier hook has raised.
CallHook(fr, h, fails) ==
    IF fr.raised THEN fr
    ELSE IF fails \/ HookRaises(fr.c, h)
         THEN [fr EXCEPT !.hooks = Append(@, h), !.raised = TRUE, !.failed = h]
         ELSE [fr EXCEPT !.hooks = Append(@, h), !.c = HookEffect(fr.c, h)]

RECURSIVE CallHooks(_, _, _)
CallHooks(fr, hooks, f) ==
    IF hooks = <<>> THEN fr
    ELSE CallHooks(CallHook(fr, Head(hooks), f = 1), Tail(hooks), f - 1)

\* container.ActiveContainer: __enter__ makes the container current, __exit__
\* makes it not current, also when the body raised.
ActiveContainerExit(fr) == [fr EXCEPT !.c.active = FALSE]

\* ActiveContainer as a plain pair of calls: the exit is not reached on a raise.
ActiveContainerUnguarded(fr, hooks, f) ==
    LET body == CallHooks([fr EXCEPT !.c.active = TRUE], hooks, f) IN
    IF fr.raised THEN fr
    ELSE IF body.raised THEN body ELSE ActiveContainerExit(body)

ActiveContainer(fr, hooks, f) ==
    IF fr.raised THEN fr
    ELSE ActiveContainerExit(CallHooks([fr EXCEPT !.c.active = TRUE], hooks, f))

\* StepTo with the write of the step in a finally clause: reached after a raise too.
StepToAlways(fr, step) == [fr EXCEPT !.c = setStep(fr.c, step)]

\* StepTo with the write of the step left out.
StepToForgotten(fr, step) == fr

\* self.setStep(n) at the end of a transition: not reached when a hook raised.
StepTo(fr, step) == IF fr.raised THEN fr ELSE [fr EXCEPT !.c = setStep(fr.c, step)]

\* The trace entry of one transition: c0 is the component at the call, gate the
\* component when the gate was evaluated, fr the frame at the return or raise.
\*   step, enabled   getStep() and self.enabled as the gate read them
\*   ran             the gate passed
\*   hooks, raised   the hooks invoked, and whether one of them raised
\*   failed          the hook that raised, "" when none did
\*   to              getStep() at the return or raise
\*   same            which of the step, the instance and the scene the
\*                   transition left as they were at the call
Instance(c) == <<c.enabled, c.componentTag, c.params, c.rootHierarchy>>

Scene(c) == <<c.meta, c.tag, c.active>>

Entry(c0, phase, gate, ran, fr) ==
    [fr.c EXCEPT !.trace = Append(c0.trace,
        [phase |-> phase, step |-> getStep(gate), enabled |-> gate.enabled,
         ran |-> ran, hooks |-> fr.hooks, raised |-> fr.raised, failed |-> fr.failed,
         to |-> getStep(fr.c),
         same |-> [step |-> getStep(fr.c) = getStep(c0) /\ fr.c.hasStep = c0.hasStep,
                   instance |-> Instance(fr.c) = Instance(c0),
                   scene |-> Scene(fr.c) = Scene(c0)]])]

(***************************************************************************)
(* The six phase transitions of Base, each from the component at the call  *)
(* and the raising hook f to the component at the return or raise.         *)
(***************************************************************************)
\* _initalizeComponent with the gate off by one: it passes at step 1 too.
initalizeComponentAtOne(c, f) ==
    IF getStep(c) <= INTIALIZE_STEP /\ c.enabled
    THEN Entry(c, INTIALIZE_STEP, c, TRUE,
               StepTo(CallHooks(Frame(c), InitializeHooks, f), 1))
    ELSE Entry(c, INTIALIZE_STEP, c, FALSE, Frame(c))

initalizeComponent(c, f) ==
    IF getStep(c) < INTIALIZE_STEP /\ c.enabled
    THEN Entry(c, INTIALIZE_STEP, c, TRUE,
               StepTo(CallHooks(Frame(c), InitializeHooks, f), 1))
    ELSE Entry(c, INTIALIZE_STEP, c, FALSE, Frame(c))

guideComponent(c, f) ==
    LET loaded == loadComponentParametersToClass(c) IN
    IF getStep(loaded) < GUIDE_STEP /\ loaded.enabled
    THEN Entry(c, GUIDE_STEP, loaded, TRUE,
               StepTo(ActiveContainer(Frame(loaded), GuideHooks, f), 2))
    ELSE Entry(c, GUIDE_STEP, loaded, FALSE, Frame(loaded))

buildComponent(c, f) ==
    LET loaded == loadComponentParametersToClass(c) IN
    IF getStep(loaded) < BUILD_STEP /\ loaded.enabled
    THEN Entry(c, BUILD_STEP, loaded, TRUE,
               StepTo(ActiveContainer(Frame(loaded), BuildHooks, f), 3))
    ELSE Entry(c, BUILD_STEP, loaded, FALSE, Frame(loaded))

\* _connectComponent gated the way _optimizeComponent is, by inequality.
connectComponentUnequal(c, f) ==
    LET loaded == loadComponentParametersToClass(c) IN
    IF getStep(loaded) # CONNECT_STEP /\ loaded.enabled
    THEN Entry(c, CONNECT_STEP, loaded, TRUE,
               StepTo(ActiveContainer(Frame(loaded), ConnectHooks, f), 4))
    ELSE Entry(c, CONNECT_STEP, loaded, FALSE, Frame(loaded))

connectComponent(c, f) ==
    LET loaded == loadComponentParametersToClass(c) IN
    IF getStep(loaded) < CONNECT_STEP /\ loaded.enabled
    THEN Entry(c, CONNECT_STEP, loaded, TRUE,
               StepTo(ActiveContainer(Frame(loaded), ConnectHooks, f), 4))
    ELSE Entry(c, CONNECT_STEP, loaded, FALSE, Frame(loaded))

\* _finalizeComponent applying the component tag whatever componentTag holds.
finalizeComponentTagged(c, f) ==
    IF getStep(c) < FINALIZE_STEP /\ c.enabled
    THEN LET published == CallHooks(Frame(c), PublishHooks, f)
             finalized == ActiveContainer(published, FinalizeHooks, f - Len(PublishHooks))
             tagged == CallHooks(finalized, TagHooks,
                                 f - Len(PublishHooks) - Len(FinalizeHooks))
         IN Entry(c, FINALIZE_STEP, c, TRUE, StepTo(tagged, 5))
    ELSE Entry(c, FINALIZE_STEP, c, FALSE, Frame(c))

finalizeComponent(c, f) ==
    IF getStep(c) < FINALIZE_STEP /\ c.enabled
    THEN LET published == CallHooks(Frame(c), PublishHooks, f)
             finalized == ActiveContainer(published, FinalizeHooks, f - Len(PublishHooks))
             tagged == IF finalized.c.componentTag # ""
                       THEN CallHooks(finalized, TagHooks,
                                      f - Len(PublishHooks) - Len(FinalizeHooks))
                       ELSE finalized
         IN Entry(c, FINALIZE_STEP, c, TRUE, StepTo(tagged, 5))
    ELSE Entry(c, FINALIZE_STEP, c, FALSE, Frame(c))

\* _optimizeComponent gated the way the other five transitions are.
optimizeComponentGated(c, f) ==
    IF getStep(c) < OPTIMIZE_STEP /\ c.enabled
    THEN Entry(c, OPTIMIZE_STEP, c, TRUE,
               StepTo(CallHooks(Frame(c), OptimizeHooks, f), 6))
    ELSE Entry(c, OPTIMIZE_STEP, c, FALSE, Frame(c))

optimizeComponent(c, f) ==
    IF getStep(c) # OPTIMIZE_STEP
    THEN Entry(c, OPTIMIZE_STEP, c, TRUE,
               StepTo(CallHooks(Frame(c), OptimizeHooks, f), 6))
    ELSE Entry(c, OPTIMIZE_STEP, c, FALSE, Frame(c))

\* Whether the last transition of the call so far ended in an exception.
Raised(c) == c.trace # <<>> /\ c.trace[Len(c.trace)].raised

\* testBuild without its call of _guideComponent.
testBuildNoGuide(c, fp, f) ==
    LET Fail(phase) == IF fp = phase THEN f ELSE 0
        c1 == initalizeComponent(c, Fail(1))
        c3 == IF Raised(c1) THEN c1 ELSE buildComponent(c1, Fail(3))
        c4 == IF Raised(c3) THEN c3 ELSE connectComponent(c3, Fail(4))
        c5 == IF Raised(c4) THEN c4 ELSE finalizeComponent(c4, Fail(5))
    IN IF Raised(c5) THEN c5 ELSE optimizeComponent(c5, Fail(6))

\* Base.testBuild: the six transitions in order; an exception ends the call.
\* Input <<fp, f>>: hook f of phase fp raises (fp = 0: none).
testBuild(c, fp, f) ==
    LET Fail(phase) == IF fp = phase THEN f ELSE 0
        c1 == initalizeComponent(c, Fail(1))
        c2 == IF Raised(c1) THEN c1 ELSE guideComponent(c1, Fail(2))
        c3 == IF Raised(c2) THEN c2 ELSE buildComponent(c2, Fail(3))
        c4 == IF Raised(c3) THEN c3 ELSE connectComponent(c3, Fail(4))
        c5 == IF Raised(c4) THEN c4 ELSE finalizeComponent(c4, Fail(5))
    IN IF Raised(c5) THEN c5 ELSE optimizeComponent(c5, Fail(6))

\* Base.loadSettings: the given keys are written to the container's metadata.
loadSettings(c, data) ==
    [c EXCEPT !.meta = [key \in ParameterKeys |->
                           IF key \in DOMAIN data THEN data[key] ELSE c.meta[key]]]

\* Builder.run for the one component of cmpt_list: initalize,
\* load_component_settings, build, connect and finalize call
\* cmpt._intialize_cmpt, cmpt.loadSettings (run's load_components has set
\* load_cmpts_from_file), cmpt._build_cmpt, cmpt._connect_cmpt and
\* cmpt._finalize_cmpt; data is what the components file holds for it.  Base
\* defines none of the four _cmpt names; answers tells whether the component's
\* class provides them, as the transitions Base has under their present names.
\* When it does not, the first of the calls raises AttributeError.
run(c, answers, data, fp, f) ==
    LET Fail(phase) == IF fp = phase THEN f ELSE 0
        c1 == initalizeComponent(c, Fail(1))
        cs == IF Raised(c1) THEN c1 ELSE loadSettings(c1, data)
        c3 == IF Raised(cs) THEN cs ELSE buildComponent(cs, Fail(3))
        c4 == IF Raised(c3) THEN c3 ELSE connectComponent(c3, Fail(4))
    IN  IF ~answers THEN c
        ELSE IF Raised(c4) THEN c4 ELSE finalizeComponent(c4, Fail(5))

(***************************************************************************)
(* The session: the number of calls made and the last of them, how often   *)
(* each phase's gate has passed, whether setStep was called from outside a *)
(* transition, whether settings were loaded and whether a call has raised. *)
(***************************************************************************)
Phases == INTIALIZE_STEP..OPTIMIZE_STEP

RECURSIVE Count(_, _)
Count(trace, phase) ==
    IF trace = <<>> THEN 0
    ELSE (IF Head(trace).phase = phase /\ Head(trace).ran THEN 1 ELSE 0)
         + Count(Tail(trace), phase)

NewSession ==
    [calls |-> 0, last |-> "__init__", runs |-> [phase \in Phases |-> 0],
     reset |-> FALSE, settings |-> FALSE, raised |-> FALSE, error |-> ""]

After(call, c) ==
    [session EXCEPT !.calls = @ + 1,
                    !.last = call,
                    !.runs = [phase \in Phases |-> @[phase] + Count(c.trace, phase)],
                    !.raised = @ \/ Raised(c),
                    !.error = ""]

Fresh == [cmpt EXCEPT !.trace = <<>>]

ScriptsIdle == UNCHANGED <<rigFiles, scriptList, result, disk, outcome, world, builder, emptied>>

Returns(call, c) ==
    /\ session.calls < MaxCalls
    /\ cmpt' = c
    /\ session' = After(call, c)
    /\ ScriptsIdle

\* The number of hooks a phase calls: the inputs that make one of them raise.
HookCount(phase) ==
    CASE phase = INTIALIZE_STEP -> Len(InitializeHooks)
      [] phase = GUIDE_STEP -> Len(GuideHooks)
      [] phase = BUILD_STEP -> Len(BuildHooks)
      [] phase = CONNECT_STEP -> Len(ConnectHooks)
      [] phase = FINALIZE_STEP -> Len(PublishHooks) + Len(FinalizeHooks) + Len(TagHooks)
      [] phase = OPTIMIZE_STEP -> Len(OptimizeHooks)

InitalizeComponent ==
    \E f \in 0..HookCount(INTIALIZE_STEP) : Returns("_initalizeComponent", initalizeComponent(Fresh, f))

GuideComponent ==
    \E f \in 0..HookCount(GUIDE_STEP) : Returns("_guideComponent", guideComponent(Fresh, f))

BuildComponent ==
    \E f \in 0..HookCount(BUILD_STEP) : Returns("_buildComponent", buildComponent(Fresh, f))

ConnectComponent ==
    \E f \in 0..HookCount(CONNECT_STEP) : Returns("_connectComponent", connectComponent(Fresh, f))

FinalizeComponent ==
    \E f \in 0..HookCount(FINALIZE_STEP) : Returns("_finalizeComponent", finalizeComponent(Fresh, f))

OptimizeComponent ==
    \E f \in 0..HookCount(OPTIMIZE_STEP) : Returns("_optimizeComponent", optimizeComponent(Fresh, f))

TestBuild ==
    \E fp \in 0..OPTIMIZE_STEP :
        \E f \in 1..(IF fp = 0 THEN 1 ELSE HookCount(fp)) : Returns("testBuild", testBuild(Fresh, fp, f))

\* setStep called on the component from outside the transitions.
SetStep ==
    \E step \in Steps :
        /\ session.calls < MaxCalls
        /\ cmpt' = setStep(Fresh, step)
        /\ session' = [session EXCEPT !.calls = @ + 1, !.last = "setStep", !.reset = TRUE,
                                      !.error = ""]
        /\ ScriptsIdle

\* The settings a caller may load: any of the keys, each with any value.
Settings ==
    {[key \in keys |-> IF key = "enabled" THEN enabled ELSE componentTag] :
        keys \in SUBSET ParameterKeys, enabled \in BOOLEAN, componentTag \in Tags}

LoadSettings ==
    \E data \in Settings :
        /\ session.calls < MaxCalls
        /\ cmpt' = loadSettings(Fresh, data)
        /\ session' = [session EXCEPT !.calls = @ + 1, !.last = "loadSettings",
                                      !.settings = TRUE, !.error = ""]
        /\ ScriptsIdle

\* The phases Builder.run applies.
RunPhases == {INTIALIZE_STEP, BUILD_STEP, CONNECT_STEP, FINALIZE_STEP}

\* What a components file holds for a component: save_components writes every
\* parameter of it.
SavedSettings == {data \in Settings : DOMAIN data = ParameterKeys}

\* Builder.run on a builder whose components file names the component: run's
\* load_components has just constructed it, with the constructor's defaults.
Run ==
    \E answers \in BOOLEAN, data \in SavedSettings, fp \in {0} \cup RunPhases :
        \E f \in 1..(IF fp = 0 THEN 1 ELSE HookCount(fp)) :
            LET c == run(Fresh, answers, data, fp, f) IN
            /\ session.calls = 0
            /\ cmpt = NewComponent(TRUE, "")
            /\ cmpt' = c
            /\ session' = [After("Builder.run", c) EXCEPT
                              !.settings = @ \/ Len(c.trace) > 1,
                              !.raised = @ \/ ~answers,
                              !.error = IF answers THEN "" ELSE "AttributeError"]
            /\ ScriptsIdle

Init ==
    /\ \E enabled \in BOOLEAN, componentTag \in Tags :
           cmpt = NewComponent(enabled, componentTag)
    /\ session = NewSession
    /\ rigFiles = <<>>
    /\ scriptList = <<>>
    /\ result = <<>>
    /\ disk = <<>>
    /\ outcome = <<>>
    /\ world = <<>>
    /\ builder = <<>>
    /\ emptied = {}

Next ==
    \/ InitalizeComponent
    \/ GuideComponent
    \/ BuildComponent
    \/ ConnectComponent
    \/ FinalizeComponent
    \/ OptimizeComponent
    \/ TestBuild
    \/ SetStep
    \/ LoadSettings
    \/ Run

Spec == Init /\ [][Next]_vars

(***************************************************************************)
(* The lifecycle claims.  Trace is the record of the last call: one entry  *)
(* per phase transition it invoked.                                        *)
(***************************************************************************)
Trace == cmpt.trace

Entries == {Trace[i] : i \in DOMAIN Trace}

\* The hooks a transition calls when its gate passes and none of them raises.
HooksOf(phase, componentTag) ==
    CASE phase = INTIALIZE_STEP -> InitializeHooks
      [] phase = GUIDE_STEP -> GuideHooks
      [] phase = BUILD_STEP -> BuildHooks
      [] phase = CONNECT_STEP -> ConnectHooks
      [] phase = FINALIZE_STEP ->
            PublishHooks \o FinalizeHooks \o (IF componentTag # "" THEN TagHooks ELSE <<>>)
      [] phase = OPTIMIZE_STEP -> OptimizeHooks

\* Only the phase transitions (and testBuild, which is made of them) have been
\* called on the component since its construction.
OnlyTransitions == ~session.reset /\ ~session.settings

\* C1 (as claimed): a component constructed with enabled = false, on which only
\* phase transitions have been called, is still at build step 0.
C1_DisabledStaysUnbuilt ==
    (OnlyTransitions /\ ~cmpt.enabled /\ ~cmpt.meta.enabled) => getStep(cmpt) = 0

\* C2 (as claimed): a transition called with its target step at or below the
\* current step invokes no hook and changes neither the step, nor the instance
\* (attributes and _componentParameters), nor the scene.
C2_SkippedMutatesNothing ==
    \A e \in Entries :
        e.phase <= e.step =>
            /\ e.hooks = <<>>
            /\ e.same.step /\ e.same.instance /\ e.same.scene

\* C2 (amended): such a transition invokes no hook and leaves the step and the
\* scene as they were; _initalizeComponent, _finalizeComponent and
\* _optimizeComponent leave the instance as it was too, while _guideComponent,
\* _buildComponent and _connectComponent reload the persisted parameters into
\* the instance before they evaluate the gate.
C2_SkippedKeepsStepAndScene ==
    \A e \in Entries :
        e.phase <= e.step =>
            /\ ~e.ran /\ e.hooks = <<>> /\ ~e.raised
            /\ e.to = e.step
            /\ e.same.step /\ e.same.scene
            /\ e.phase \in {INTIALIZE_STEP, FINALIZE_STEP, OPTIMIZE_STEP} => e.same.instance

\* C2 witness: a skipped _guideComponent, _buildComponent or _connectComponent
\* whose reload changed the instance.
C2_Witness ==
    \E e \in Entries : e.phase <= e.step /\ ~e.ran /\ ~e.same.instance

\* C3: a call of a phase transition (or of testBuild) never lowers the build step.
C3_StepNeverDecreases ==
    [][cmpt'.trace # <<>> => getStep(cmpt') >= getStep(cmpt)]_vars

\* C3 witness: after an earlier call, _buildComponent took the step from 1 to 3.
C3_Witness ==
    /\ ~session.reset /\ session.calls > 1
    /\ session.last = "_buildComponent"
    /\ \E e \in Entries : e.ran /\ e.step = INTIALIZE_STEP /\ e.to = BUILD_STEP

\* C4 (as claimed): a transition invokes hooks only if the gate read a step
\* below its target step and an enabled component.
C4_HooksOnlyWhenGated ==
    \A e \in Entries : e.hooks # <<>> => (e.step < e.phase /\ e.enabled)

IsPrefix(s, t) == Len(s) <= Len(t) /\ s = SubSeq(t, 1, Len(s))

C13_RaiseEndsTheCall ==
    \A i \in DOMAIN Trace :
        Trace[i].raised =>
            /\ Trace[i].ran /\ Trace[i].hooks # <<>>
            /\ Trace[i].hooks[Len(Trace[i].hooks)] = Trace[i].failed
            /\ \A j \in 1..(Len(Trace[i].hooks) - 1) : Trace[i].hooks[j] # Trace[i].failed
            /\ Trace[i].to = Trace[i].step /\ Trace[i].same.step
            /\ getStep(cmpt) = Trace[i].step
            /\ i = Len(Trace) /\ Raised(cmpt) /\ session.raised

\* C13 witness: in testBuild, preRigSetup raised: _buildComponent was the third
\* and last transition invoked and the step stayed 2.
C13_Witness ==
    /\ session.last = "testBuild" /\ Len(Trace) = BUILD_STEP
    /\ Trace[BUILD_STEP].raised /\ Trace[BUILD_STEP].failed = "preRigSetup"
    /\ Trace[BUILD_STEP].hooks = <<"initialHierarchy", "preRigSetup">>
    /\ getStep(cmpt) = GUIDE_STEP

\* The hooks the transitions call inside ActiveContainer.
ContainedHooks ==
    UNION {{hooks[i] : i \in DOMAIN hooks} :
              hooks \in {GuideHooks, BuildHooks, ConnectHooks, FinalizeHooks}}

\* C14: whenever a call of a transition has returned or raised, the component's
\* container is not the active container.
C14_ContainerReleased == ~cmpt.active

\* C14 witness: a hook called inside ActiveContainer raised, and the container
\* is not active after the call.
C14_Witness ==
    /\ Raised(cmpt) /\ Trace[Len(Trace)].failed \in ContainedHooks
    /\ ~cmpt.active

\* The phases of the transitions a call invoked, in the order of the calls.
PhasesOf(trace) == [i \in DOMAIN trace |-> trace[i].phase]

\* C17 (as claimed): Builder.run applies to a component the sequence of
\* transitions testBuild applies to it, and leaves it at the step at which
\* testBuild leaves it.
C17_RunIsTestBuild ==
    (session.last = "Builder.run" /\ ~Raised(cmpt)) =>
        LET built == testBuild(NewComponent(TRUE, ""), 0, 1) IN
        /\ session.error = ""
        /\ PhasesOf(Trace) = PhasesOf(built.trace)
        /\ getStep(cmpt) = getStep(built)

\* The order of the hooks of guide, build, connect and finalize.
FixedOrder(phase, componentTag) ==
    CASE phase = GUIDE_STEP -> <<"createJoints", "createBuildGuides">>
      [] phase = BUILD_STEP ->
            <<"initialHierarchy", "preRigSetup", "rigSetup", "postRigSetup", "setupAnimAttrs">>
      [] phase = CONNECT_STEP -> <<"initConnect", "connect", "postConnect">>
      [] phase = FINALIZE_STEP ->
            <<"publishNodes", "publishAttributes", "finalize", "setAttrs">>
            \o (IF componentTag # "" THEN <<"tag">> ELSE <<>>)

Unforced ==
    /\ Len(Trace) = 1
    /\ \/ Trace[1].failed = ""
       \/ Trace[1].failed = "publishNodes" /\ ~cmpt.rootHierarchy

\* C24 (as claimed): transition k in 2..5, invoked on an enabled component at a
\* step s < k-1, runs its hooks and sets the step to k, whatever transitions
\* between s and k were left out.
C24_PredecessorsNotRequired ==
    (OnlyTransitions /\ Unforced) =>
        LET e == Trace[1] IN
        (e.phase \in GUIDE_STEP..FINALIZE_STEP /\ e.enabled /\ e.step < e.phase - 1) =>
            /\ e.ran /\ ~e.raised
            /\ e.hooks = HooksOf(e.phase, cmpt.componentTag)
            /\ e.to = e.phase

\* C24 for the transitions 2..4 alone.
C24_UpToConnect ==
    (OnlyTransitions /\ Unforced) =>
        LET e == Trace[1] IN
        (e.phase \in GUIDE_STEP..CONNECT_STEP /\ e.enabled /\ e.step < e.phase - 1) =>
            /\ e.ran /\ ~e.raised
            /\ e.hooks = HooksOf(e.phase, cmpt.componentTag)
            /\ e.to = e.phase

\* The entries of a trace whose gate passed, and those of them whose hooks
\* all returned.
Executed(trace) == {i \in DOMAIN trace : trace[i].ran}

Completed(trace) == {i \in DOMAIN trace : trace[i].ran /\ ~trace[i].raised}

Latest(indices) == CHOOSE i \in indices : \A j \in indices : j <= i

\* No hook of the last call was made to fail from outside: none raised, or
\* publishNodes raised on its own for want of self.rootHierarchy.
Unprovoked ==
    \A e \in Entries : e.failed = "" \/ (e.failed = "publishNodes" /\ ~cmpt.rootHierarchy)

\* C30 (as claimed): reached by phase transitions alone, getStep() is in 0..6,
\* is 0 while build_step has never been written, and once it has been written
\* is the target step of the phase the last call executed last.
C30_StepIsLastExecuted ==
    (OnlyTransitions /\ Unprovoked) =>
        /\ getStep(cmpt) \in Steps
        /\ ~cmpt.hasStep => getStep(cmpt) = 0
        /\ (cmpt.hasStep /\ Executed(Trace) # {}) =>
              getStep(cmpt) = Trace[Latest(Executed(Trace))].phase

\* C30 (amended): reached by phase transitions alone, getStep() is in 0..6 and
\* is 0 while build_step has never been written; a call in which some phase
\* ran to its end leaves the target step of the last such phase, and a call
\* in which none did (each skipped, or ended by a raising hook) leaves the
\* step and the attribute as they were.
C30_StepIsLastCompleted ==
    [][OnlyTransitions' =>
          /\ getStep(cmpt') \in Steps
          /\ ~cmpt'.hasStep => getStep(cmpt') = 0
          /\ IF Completed(cmpt'.trace) # {}
             THEN /\ cmpt'.hasStep
                  /\ getStep(cmpt') = cmpt'.trace[Latest(Completed(cmpt'.trace))].phase
             ELSE /\ cmpt'.hasStep = cmpt.hasStep
                  /\ getStep(cmpt') = getStep(cmpt)]_vars

\* C30 witness: a call went through two phases and was ended by a raising hook
\* in the next; the step is the target of the second.
C30_Witness ==
    /\ OnlyTransitions /\ Len(Trace) >= 3
    /\ Trace[Len(Trace)].ran /\ Trace[Len(Trace)].raised
    /\ cmpt.hasStep /\ getStep(cmpt) = Trace[Len(Trace) - 1].phase
    /\ getStep(cmpt) # Trace[Len(Trace)].phase

(***************************************************************************)
(* Archetype script resolution (maya/builder/core.py).                     *)
(*                                                                         *)
(* Every rig file lies in a directory of its own, named like the rig; the  *)
(* directories of ArchetypeDirs lie under common.ARCHETYPES_PATH.  A rig    *)
(* file is a function from the keys it holds to their values.  A script    *)
(* entry that ends in ".py" has an extension, any other entry has none.    *)
(* A script path is <<rig, entry>> for a file entry of the rig's list and  *)
(* <<rig, directory, file>> for a file found in a directory entry.         *)
(***************************************************************************)
MaxDepth == 4

PRE_SCRIPT == "pre_script"
POST_SCRIPT == "post_script"
PUB_SCRIPT == "pub_script"
BASE_ARCHETYPE == "base_archetype"

ScriptTypes == {PRE_SCRIPT, POST_SCRIPT}
RigNames == {"A", "B", "C"}
ArchetypeDirs == {"A", "B"}
FileEntries == {"a.py"}
DirEntries == {"dir"}
MissingDirs == {"gone"}

\* The script files of a script directory, in the order the listing gives them;
\* a directory that does not exist has none, nor has one whose files have been
\* removed.
Listing(rig, directory) ==
    IF directory \in MissingDirs \/ <<rig, directory>> \in emptied
    THEN <<>> ELSE <<"x.py", "y.py">>

\* os.path.splitext: the extension of the names the model uses.  A leading dot
\* starts no extension.
Extension(name) ==
    CASE name \in {"a.rig", "b.rig", ".c.rig", "hero.rig"} -> ".rig"
      [] name \in {"a.py", "x.py", "y.py", "ghost.py"} -> ".py"
      [] name = "notes.txt" -> ".txt"
      [] name = "face.v2" -> ".v2"
      [] OTHER -> ""

\* path.isFile and path.isDir: decided by the extension alone.
isFile(entry) == entry # "" /\ Extension(entry) # ""

isDir(entry) == entry # "" /\ Extension(entry) = ""

\* runScript.findScripts: the script files of a directory, in listing order.
DirectoryScripts(rig, directory) ==
    [i \in DOMAIN Listing(rig, directory) |-> <<rig, directory, Listing(rig, directory)[i]>>]

\* validateScriptList taking for a file only an entry that is a file on disk.
validateScriptListExisting(rig, entry) ==
    (IF entry \in FileEntries THEN <<<<rig, entry>>>> ELSE <<>>)
    \o (IF isDir(entry) THEN DirectoryScripts(rig, entry) ELSE <<>>)

\* validateScriptList appending every item as it is given.
validateScriptListAsGiven(rig, entry) == <<<<rig, entry>>>>

\* core.validateScriptList for the one path findScripts hands it.
validateScriptList(rig, entry) ==
    (IF isFile(entry) THEN <<<<rig, entry>>>> ELSE <<>>)
    \o (IF isDir(entry) THEN DirectoryScripts(rig, entry) ELSE <<>>)

\* core.getRigData: None for no rig file or a key the file does not hold,
\* RuntimeError for a file that does not exist.
None == [raised |-> "", none |-> TRUE, value |-> <<>>]

\* getRigData taking a path without a file for a rig file without keys.
getRigDataLenient(files, rigFile, key) ==
    IF rigFile = "" \/ rigFile \notin DOMAIN files THEN None
    ELSE IF key \in DOMAIN files[rigFile]
         THEN [raised |-> "", none |-> FALSE, value |-> files[rigFile][key]]
         ELSE None

getRigData(files, rigFile, key) ==
    IF rigFile = "" THEN None
    ELSE IF rigFile \notin DOMAIN files THEN [None EXCEPT !.raised = "RuntimeError"]
    ELSE IF key \in DOMAIN files[rigFile]
         THEN [raised |-> "", none |-> FALSE, value |-> files[rigFile][key]]
         ELSE None

\* getAvailableArchetypes taking every rig environment for an archetype.
getAvailableArchetypesAnywhere(files) == DOMAIN files

\* core.findRigFile and core.getAvailableArchetypes: the directories under
\* ARCHETYPES_PATH that hold a rig file.
getAvailableArchetypes(files) == ArchetypeDirs \cap DOMAIN files

\* The loop of findScripts over the rig's own entries.
RECURSIVE LocalScripts(_, _)
LocalScripts(rig, entries) ==
    IF entries = <<>> THEN <<>>
    ELSE validateScriptList(rig, Head(entries)) \o LocalScripts(rig, Tail(entries))

\* findScripts with a guard: the walk returns what it has when it has gone
\* through more rig files than there are.
RECURSIVE findScriptsGuarded(_, _, _, _, _)
findScriptsGuarded(files, list, rigFile, scriptType, depth) ==
    LET localScriptPaths == getRigData(files, rigFile, scriptType)
        baseArchetype == getRigData(files, rigFile, BASE_ARCHETYPE)
    IN  IF depth = 0 THEN [raised |-> "", list |-> list]
        ELSE IF localScriptPaths.raised # "" THEN [raised |-> localScriptPaths.raised, list |-> list]
        ELSE IF localScriptPaths.none THEN [raised |-> "TypeError", list |-> list]
        ELSE LET own == list \o LocalScripts(rigFile, localScriptPaths.value) IN
             IF /\ ~baseArchetype.none
                /\ baseArchetype.value # ""
                /\ baseArchetype.value \in getAvailableArchetypes(files)
             THEN findScriptsGuarded(files, own, baseArchetype.value, scriptType, depth - 1)
             ELSE [raised |-> "", list |-> own]

\* GetCompleteScriptList.findScripts: appends the rig's scripts to the class's
\* scriptList, then those of its base archetype.  depth counts the frames left
\* before the interpreter's recursion limit.
RECURSIVE findScripts(_, _, _, _, _)
findScripts(files, list, rigFile, scriptType, depth) ==
    LET localScriptPaths == getRigData(files, rigFile, scriptType)
        baseArchetype == getRigData(files, rigFile, BASE_ARCHETYPE)
    IN  IF depth = 0 THEN [raised |-> "RecursionError", list |-> list]
        ELSE IF localScriptPaths.raised # "" THEN [raised |-> localScriptPaths.raised, list |-> list]
        ELSE IF localScriptPaths.none THEN [raised |-> "TypeError", list |-> list]
        ELSE LET own == list \o LocalScripts(rigFile, localScriptPaths.value) IN
             IF /\ ~baseArchetype.none
                /\ baseArchetype.value # ""
                /\ baseArchetype.value \in getAvailableArchetypes(files)
             THEN findScripts(files, own, baseArchetype.value, scriptType, depth - 1)
             ELSE [raised |-> "", list |-> own]

RECURSIVE reversed(_)
reversed(list) == IF list = <<>> THEN <<>> ELSE Append(reversed(Tail(list)), Head(list))

\* getScriptList without the reset: findScripts appends to what the class's
\* scriptList holds from the calls before.
getScriptListKept(files, rigFile, scriptType) ==
    LET found == findScripts(files, scriptList, rigFile, scriptType, MaxDepth) IN
    [scriptList |-> found.list,
     raised |-> found.raised,
     value |-> IF found.raised = "" THEN reversed(found.list) ELSE <<>>]

\* getScriptList without the reversal.
getScriptListUnreversed(files, rigFile, scriptType) ==
    LET found == findScripts(files, <<>>, rigFile, scriptType, MaxDepth) IN
    [scriptList |-> found.list, raised |-> found.raised,
     value |-> IF found.raised = "" THEN found.list ELSE <<>>]

\* GetCompleteScriptList.getScriptList: the class's scriptList is emptied,
\* filled by findScripts and returned reversed.
getScriptList(files, rigFile, scriptType) ==
    LET found == findScripts(files, <<>>, rigFile, scriptType, MaxDepth) IN
    [scriptList |-> found.list,
     raised |-> found.raised,
     value |-> IF found.raised = "" THEN reversed(found.list) ELSE <<>>]

(***************************************************************************)
(* The rig files the model starts from: each rig holds any list of         *)
(* distinct script entries, or no list, under the pre-script key, a list   *)
(* of a directory that does not exist and a file under the post-script     *)
(* key, and names any rig, or none, as its base archetype.                 *)
(***************************************************************************)
ScriptEntries == FileEntries \cup DirEntries

RECURSIVE Lists(_)
Lists(n) ==
    IF n = 0 THEN {<<>>}
    ELSE Lists(n - 1) \cup
         {Append(l, e) : l \in {k \in Lists(n - 1) : Len(k) = n - 1},
                         e \in ScriptEntries}

NoRepeat(l) == \A i, j \in DOMAIN l : l[i] = l[j] => i = j

ScriptLists == {l \in Lists(Cardinality(ScriptEntries)) : NoRepeat(l)}

RigKeys == {PRE_SCRIPT, POST_SCRIPT, BASE_ARCHETYPE}

RigFile(keys, pre, post, base) ==
    [key \in keys |->
        IF key = PRE_SCRIPT THEN pre ELSE IF key = POST_SCRIPT THEN post ELSE base]

RigFileChoices ==
    {RigFile(keys, pre, post, base) :
        keys \in {k \in SUBSET RigKeys : POST_SCRIPT \in k}, pre \in ScriptLists,
        post \in {<<"gone", "a.py">>}, base \in RigNames}

\* The scene-side variables while only scripts are resolved.
LifecycleIdle == UNCHANGED <<cmpt, session, disk, outcome, world, builder, emptied>>

\* One call of GetCompleteScriptList.getScriptList; after tells whether the
\* class's scriptList held scripts of an earlier call when it was made.
GetScriptList ==
    \E rigFile \in RigNames, scriptType \in ScriptTypes :
        LET got == getScriptList(rigFiles, rigFile, scriptType) IN
        /\ scriptList' = got.scriptList
        /\ result' = <<[rigFile |-> rigFile, scriptType |-> scriptType,
                        raised |-> got.raised, value |-> got.value,
                        after |-> scriptList # <<>>]>>
        /\ UNCHANGED rigFiles
        /\ LifecycleIdle

InitScripts ==
    /\ cmpt = NewComponent(TRUE, "")
    /\ session = NewSession
    /\ rigFiles \in [RigNames -> RigFileChoices]
    /\ scriptList = <<>>
    /\ result = <<>>
    /\ disk = <<>>
    /\ outcome = <<>>
    /\ world = <<>>
    /\ builder = <<>>
    /\ emptied = {}

NextScripts == GetScriptList

SpecScripts == InitScripts /\ [][NextScripts]_vars

(***************************************************************************)
(* The script-resolution claims.  Returned is the last getScriptList call  *)
(* when it returned a list.                                                *)
(***************************************************************************)
Called == result # <<>>

Returned == Called /\ result[1].raised = ""

\* The archetype whose rig file follows rig's in the walk, "" when there is none.
BaseOf(rig) ==
    IF /\ BASE_ARCHETYPE \in DOMAIN rigFiles[rig]
       /\ rigFiles[rig][BASE_ARCHETYPE] \in ArchetypeDirs
    THEN rigFiles[rig][BASE_ARCHETYPE]
    ELSE ""

\* The scripts rig declares for scriptType, in the order they are resolved:
\* configured entry order, then directory-listing order.
RECURSIVE Resolve(_, _)
Resolve(rig, entries) ==
    IF entries = <<>> THEN <<>>
    ELSE (IF Head(entries) \in FileEntries
          THEN <<<<rig, Head(entries)>>>>
          ELSE [i \in DOMAIN Listing(rig, Head(entries)) |->
                   <<rig, Head(entries), Listing(rig, Head(entries))[i]>>])
         \o Resolve(rig, Tail(entries))

Declared(rig, scriptType) ==
    IF scriptType \in DOMAIN rigFiles[rig]
    THEN Resolve(rig, rigFiles[rig][scriptType])
    ELSE <<>>

\* The entries of list that belong to rig, in the order they have in list.
RECURSIVE Of(_, _)
Of(rig, list) ==
    IF list = <<>> THEN <<>>
    ELSE (IF Head(list)[1] = rig THEN <<Head(list)>> ELSE <<>>) \o Of(rig, Tail(list))

Range(list) == {list[i] : i \in DOMAIN list}

\* The chain A (base) <- B <- C (derived): C names B, B names A, A ends the walk.
ChainABC == BaseOf("C") = "B" /\ BaseOf("B") = "A" /\ BaseOf("A") = ""

Rank(rig) == CASE rig = "A" -> 1 [] rig = "B" -> 2 [] rig = "C" -> 3

\* C8: on the chain A <- B <- C, the list getScriptList(C, phase) returns holds the
\* scripts the three rigs declare, every script of A before every script of B
\* and every script of B before every script of C.
C8_BaseScriptsFirst ==
    (Returned /\ ChainABC /\ result[1].rigFile = "C") =>
        LET value == result[1].value
            scriptType == result[1].scriptType
        IN  /\ Range(value) = UNION {Range(Declared(rig, scriptType)) : rig \in RigNames}
            /\ \A i, j \in DOMAIN value :
                  Rank(value[i][1]) < Rank(value[j][1]) => i < j

\* C8 witness: such a call returned scripts of all three rigs.
C8_Witness ==
    /\ Returned /\ ChainABC /\ result[1].rigFile = "C"
    /\ \A rig \in RigNames : Len(Of(rig, result[1].value)) > 1

\* C9 (as claimed): in the returned list the scripts of each rig stand in the
\* order in which they were resolved.
C9_LevelKeepsResolutionOrder ==
    Returned =>
        \A rig \in RigNames :
            LET own == Of(rig, result[1].value) IN
            own # <<>> => own = Declared(rig, result[1].scriptType)

\* C10 (as claimed): when B declares no scripts for the phase - the key is absent
\* or its list is empty - and its base archetype A, which ends the walk, declares
\* some, getScriptList(B, phase) does not raise and returns A's scripts, all of
\* them and nothing else.
C10_EmptyLevelInheritsBase ==
    (/\ Called /\ result[1].rigFile = "B"
     /\ BaseOf("B") = "A" /\ BaseOf("A") = ""
     /\ Declared("B", result[1].scriptType) = <<>>
     /\ Declared("A", result[1].scriptType) # <<>>) =>
        /\ result[1].raised = ""
        /\ Range(result[1].value) = Range(Declared("A", result[1].scriptType))
        /\ Len(result[1].value) = Len(Declared("A", result[1].scriptType))

\* The rig the last call was made on, and the archetype its rig file names.
CalledRig == result[1].rigFile

NamedBase(rig) ==
    IF BASE_ARCHETYPE \in DOMAIN rigFiles[rig] THEN rigFiles[rig][BASE_ARCHETYPE] ELSE ""

InMissing(list) == {path \in Range(list) : path[2] \in MissingDirs}

\* The rigs the walk from rig visits, rig itself first.
RECURSIVE Walk(_, _)
Walk(rig, depth) ==
    IF rig = "" \/ depth = 0 THEN {} ELSE {rig} \cup Walk(BaseOf(rig), depth - 1)

\* The walk from rig comes to a rig without an available base archetype.
RECURSIVE Ends(_, _)
Ends(rig, depth) ==
    IF rig = "" THEN TRUE ELSE IF depth = 0 THEN FALSE ELSE Ends(BaseOf(rig), depth - 1)

RECURSIVE Keyed(_, _, _)
Keyed(rig, scriptType, depth) ==
    IF rig = "" \/ depth = 0 THEN TRUE
    ELSE scriptType \in DOMAIN rigFiles[rig] /\ Keyed(BaseOf(rig), scriptType, depth - 1)

\* C21: on a chain of base archetypes that ends, getScriptList comes back
\* without having exhausted the recursion; on a chain that comes round to a rig
\* file it has already read, the walk goes on until the interpreter's recursion
\* limit ends it, and the call returns no list.
C21_WalkEndsIffChainEnds ==
    Called =>
        /\ Ends(CalledRig, MaxDepth) => result[1].raised # "RecursionError"
        /\ (Ends(CalledRig, MaxDepth) /\ Keyed(CalledRig, result[1].scriptType, MaxDepth)) =>
              result[1].raised = ""
        /\ ~Ends(CalledRig, MaxDepth) =>
              /\ result[1].raised # "" /\ result[1].value = <<>>
              /\ Keyed(CalledRig, result[1].scriptType, MaxDepth) =>
                    result[1].raised = "RecursionError"

\* C21 witness: the rig file of archetype A names A as its base archetype, and
\* the call on A ended in the recursion limit.
C21_Witness ==
    /\ Called /\ CalledRig = "A" /\ BaseOf("A") = "A"
    /\ result[1].raised = "RecursionError"

\* The scripts the walk from rig collects, level after level from rig down to
\* the last base archetype.
RECURSIVE Collected(_, _, _)
Collected(rig, scriptType, depth) ==
    IF rig = "" \/ depth = 0 THEN <<>>
    ELSE Declared(rig, scriptType) \o Collected(BaseOf(rig), scriptType, depth - 1)

\* C25: what getScriptList returns is decided by its arguments and the rig
\* files alone, whatever the class's scriptList held from earlier calls: it is
\* the reverse of the scripts of the walk, and the class's scriptList holds
\* those scripts and no others.
C25_NothingCarriedOver ==
    Returned =>
        /\ result[1].value = reversed(Collected(CalledRig, result[1].scriptType, MaxDepth))
        /\ scriptList = Collected(CalledRig, result[1].scriptType, MaxDepth)

\* C25 witness: a call made while the class's scriptList held the scripts of an
\* earlier call returned a single script.
C25_Witness ==
    /\ Returned /\ result[1].after
    /\ Len(result[1].value) = 1

(***************************************************************************)
(* Reading rig files (core.getRigData; Builder.get_rig_data is the same    *)
(* code).  One rig file, A, is on disk; a caller passes its path, an empty *)
(* path, or a path at which there is no file.                              *)
(***************************************************************************)
RigPaths == {"", "A", "nowhere"}

\* getRigData(rigFile, key), called by itself.
GetRigData ==
    \E rigFile \in RigPaths, key \in RigKeys :
        LET got == getRigData(rigFiles, rigFile, key) IN
        /\ result' = <<[call |-> "getRigData", rigFile |-> rigFile, scriptType |-> key,
                        raised |-> got.raised, none |-> got.raised = "" /\ got.none,
                        value |-> got.value]>>
        /\ UNCHANGED <<rigFiles, scriptList>>
        /\ LifecycleIdle

\* getScriptList(rigFile, scriptType) on any of the paths.
ResolveScripts ==
    \E rigFile \in RigPaths, scriptType \in ScriptTypes :
        LET got == getScriptList(rigFiles, rigFile, scriptType) IN
        /\ scriptList' = got.scriptList
        /\ result' = <<[call |-> "getScriptList", rigFile |-> rigFile,
                        scriptType |-> scriptType, raised |-> got.raised,
                        none |-> FALSE, value |-> got.value]>>
        /\ UNCHANGED rigFiles
        /\ LifecycleIdle

InitRigData ==
    /\ cmpt = NewComponent(TRUE, "")
    /\ session = NewSession
    /\ rigFiles \in [{"A"} -> RigFileChoices]
    /\ scriptList = <<>>
    /\ result = <<>>
    /\ disk = <<>>
    /\ outcome = <<>>
    /\ world = <<>>
    /\ builder = <<>>
    /\ emptied = {}

NextRigData ==
    \/ GetRigData
    \/ ResolveScripts

SpecRigData == InitRigData /\ [][NextRigData]_vars

\* C23: a call of getRigData or getScriptList leaves the rig files as they
\* are; with a path that is not empty and at which there is no file it raises
\* RuntimeError; getRigData returns None, raising nothing, for an empty path
\* and for a key the rig file does not hold, and the key's value otherwise.
C23_MissingRigFileRaises ==
    [][/\ rigFiles' = rigFiles
       /\ LET r == result'[1] IN
          /\ (r.rigFile # "" /\ r.rigFile \notin DOMAIN rigFiles) =>
                r.raised = "RuntimeError" /\ ~r.none
          /\ r.call = "getRigData" =>
                /\ r.rigFile = "" => (r.raised = "" /\ r.none)
                /\ (r.rigFile \in DOMAIN rigFiles /\ r.scriptType \notin DOMAIN rigFiles[r.rigFile]) =>
                      (r.raised = "" /\ r.none)
                /\ (r.rigFile \in DOMAIN rigFiles /\ r.scriptType \in DOMAIN rigFiles[r.rigFile]) =>
                      (r.raised = "" /\ ~r.none /\ r.value = rigFiles[r.rigFile][r.scriptType])]_vars

\* C23 witness: getScriptList was called with a path at which there is no rig
\* file, and raised RuntimeError.
C23_Witness ==
    /\ result # <<>> /\ result[1].call = "getScriptList"
    /\ result[1].rigFile = "nowhere" /\ result[1].raised = "RuntimeError"

(***************************************************************************)
(* validateScriptList on a list (core.py).  The entries a list may hold:   *)
(* an empty entry, a file on disk, a file that is not on disk, a directory *)
(* on disk and a directory that is not.                                    *)
(***************************************************************************)
MaxEntries == 3

GivenEntries == {"", "ghost.py"} \cup FileEntries \cup DirEntries \cup MissingDirs

RECURSIVE EntryLists(_)
EntryLists(n) ==
    IF n = 0 THEN {<<>>}
    ELSE EntryLists(n - 1) \cup
         {Append(l, entry) : l \in {k \in EntryLists(n - 1) : Len(k) = n - 1},
                             entry \in GivenEntries}

\* The loop of validateScriptList over the items of scriptsList: an empty item
\* is passed over.
RECURSIVE validateScriptListOf(_, _)
validateScriptListOf(rig, scriptsList) ==
    IF scriptsList = <<>> THEN <<>>
    ELSE (IF Head(scriptsList) = "" THEN <<>> ELSE validateScriptList(rig, Head(scriptsList)))
         \o validateScriptListOf(rig, Tail(scriptsList))

ValidateScriptList ==
    \E scriptsList \in EntryLists(MaxEntries) :
        /\ result' = <<[call |-> "validateScriptList", given |-> scriptsList,
                        value |-> validateScriptListOf("A", scriptsList)]>>
        /\ UNCHANGED <<rigFiles, scriptList>>
        /\ LifecycleIdle

InitValidate ==
    /\ cmpt = NewComponent(TRUE, "")
    /\ session = NewSession
    /\ rigFiles = <<>>
    /\ scriptList = <<>>
    /\ result = <<>>
    /\ disk = <<>>
    /\ outcome = <<>>
    /\ world = <<>>
    /\ builder = <<>>
    /\ emptied = {}

NextValidate == ValidateScriptList

SpecValidate == InitValidate /\ [][NextValidate]_vars

\* What the entries stand for when each is judged by its extension alone: an
\* entry with an extension for itself, an entry without one for the script
\* files of the directory, an empty entry for nothing.
RECURSIVE ByExtension(_)
ByExtension(entries) ==
    IF entries = <<>> THEN <<>>
    ELSE (CASE Head(entries) = "" -> <<>>
            [] Head(entries) \in {"a.py", "ghost.py"} -> <<<<"A", Head(entries)>>>>
            [] Head(entries) = "dir" -> <<<<"A", "dir", "x.py">>, <<"A", "dir", "y.py">>>>
            [] OTHER -> <<>>)
         \o ByExtension(Tail(entries))

\* C28: validateScriptList returns, in the order of the entries, every entry
\* that has an extension, on disk or not, and for every entry without one
\* the script files of that directory; empty entries leave nothing.
C28_ClassifiedByExtension ==
    result # <<>> => result[1].value = ByExtension(result[1].given)

\* C28 witness: a list with a file that is not on disk, an empty entry and a
\* directory came back as the file followed by the directory's scripts.
C28_Witness ==
    /\ result # <<>> /\ result[1].given = <<"ghost.py", "", "dir">>
    /\ result[1].value = <<<<"A", "ghost.py">>, <<"A", "dir", "x.py">>, <<"A", "dir", "y.py">>>>

(***************************************************************************)
(* Archetype discovery and rig environments (maya/builder/core.py).        *)
(*                                                                         *)
(* disk.archetypes holds the directories under common.ARCHETYPES_PATH and  *)
(* disk.environments the rig environments under the target directory.  A   *)
(* directory is its listing (os.listdir order) and what its rig file and   *)
(* its script folders hold:                                                *)
(*   rig_name, base_archetype   the values of these keys of the rig file   *)
(*   scriptKeys   the rig file holds the three script keys, each naming a  *)
(*                script folder first                                      *)
(*   scripts      the folders the script keys name first hold files        *)
(* A path is <<"archetypes" or "environments", directory>>, followed by a  *)
(* file name for a file in the directory.                                  *)
(***************************************************************************)
MaxFiles == 2

ArchetypesListing == <<".hidden", "biped", "face.v2">>
FileNames == {"a.rig", "b.rig", ".c.rig", "notes.txt"}
EnvNames == {"hero"}
ArchetypeArgs == Range(ArchetypesListing) \cup {"quadruped"}

\* str.startswith("."), for the names the model uses.
startswithDot(name) == name \in {".hidden", ".c.rig"}

\* "{}.rig".format(rigName)
RigFileName(rigName) == CASE rigName = "hero" -> "hero.rig"

Directory(listing, scriptKeys) ==
    [exists |-> TRUE, listing |-> listing, rig_name |-> "archetype",
     base_archetype |-> "", scriptKeys |-> scriptKeys, scripts |-> TRUE]

NoDirectory == [Directory(<<>>, FALSE) EXCEPT !.exists = FALSE, !.scripts = FALSE]

\* What findRigFile returns when it finds no rig file.
False == <<>>

\* The loop of findRigFile: the first name of the listing that does not start
\* with a dot and has the extension .rig, "" when there is none.
RECURSIVE FirstRigFile(_)
FirstRigFile(listing) ==
    IF listing = <<>> THEN ""
    ELSE IF ~startswithDot(Head(listing)) /\ Extension(Head(listing)) = ".rig"
         THEN Head(listing)
         ELSE FirstRigFile(Tail(listing))

\* findRigFile accepting a directory only when a single name of it is a rig file.
RECURSIVE LastRigFile(_)
LastRigFile(listing) ==
    IF listing = <<>> THEN ""
    ELSE IF /\ ~startswithDot(listing[Len(listing)])
            /\ Extension(listing[Len(listing)]) = ".rig"
         THEN listing[Len(listing)]
         ELSE LastRigFile(SubSeq(listing, 1, Len(listing) - 1))

findRigFileSingle(fs, path) ==
    LET listing == fs[path[1]][path[2]].listing IN
    IF isFile(path[2]) \/ FirstRigFile(listing) = "" THEN False
    ELSE IF FirstRigFile(listing) # LastRigFile(listing) THEN False
    ELSE Append(path, FirstRigFile(listing))

\* core.findRigFile
findRigFile(fs, path) ==
    IF isFile(path[2]) THEN False
    ELSE LET f == FirstRigFile(fs[path[1]][path[2]].listing) IN
         IF f = "" THEN False ELSE Append(path, f)

\* getAvailableArchetypes listing every directory of ARCHETYPES_PATH.
getAvailableArchetypesOnAll(fs) == ArchetypesListing

\* core.getAvailableArchetypes, on the disk.
getAvailableArchetypesOn(fs) ==
    SelectSeq(ArchetypesListing,
              LAMBDA archetype : /\ ~startswithDot(archetype)
                                 /\ findRigFile(fs, <<"archetypes", archetype>>) # False)

\* os.rename of the rig file inside a listing.
Renamed(listing, from, to) ==
    [i \in DOMAIN listing |-> IF listing[i] = from THEN to ELSE listing[i]]

\* core.createRigEnviornment: copies the source, renames its rig file and
\* writes the rig name into it.
createRigEnviornment(fs, sourceEnviornment, targetEnviornment, rigName) ==
    LET tgtEnvPath == <<targetEnviornment, rigName>>
        copied == [fs EXCEPT ![targetEnviornment][rigName] =
                       fs[sourceEnviornment[1]][sourceEnviornment[2]]]
        srcRigFile == findRigFile(copied, tgtEnvPath)
        rigFile == Append(tgtEnvPath, RigFileName(rigName))
    IN  IF fs[targetEnviornment][rigName].exists
        THEN [raised |-> "FileExistsError", fs |-> fs, value |-> <<>>]
        ELSE IF srcRigFile = False
        THEN [raised |-> "TypeError", fs |-> copied, value |-> <<>>]
        ELSE [raised |-> "",
              fs |-> [copied EXCEPT
                         ![targetEnviornment][rigName].listing =
                             Renamed(@, srcRigFile[3], rigFile[3]),
                         ![targetEnviornment][rigName].rig_name = rigName],
              value |-> rigFile]

\* core.newRigEnviornmentFromArchetype
newRigEnviornmentFromArchetype(fs, newEnv, archetype, rigName) ==
    LET created == createRigEnviornment(fs, <<"archetypes", archetype>>, newEnv, rigName)
        based == [created.fs EXCEPT ![newEnv][rigName].base_archetype = archetype]
    IN  IF archetype \notin Range(getAvailableArchetypesOn(fs))
        THEN [raised |-> "RuntimeError", fs |-> fs, value |-> <<>>]
        ELSE IF created.raised # "" THEN created
        ELSE IF ~based[newEnv][rigName].scriptKeys
        THEN [raised |-> "KeyError", fs |-> based, value |-> <<>>]
        ELSE [raised |-> "",
              fs |-> [based EXCEPT ![newEnv][rigName].scripts = FALSE],
              value |-> created.value]

\* The listings a directory may have: up to MaxFiles distinct names.
RECURSIVE FileLists(_)
FileLists(n) ==
    IF n = 0 THEN {<<>>}
    ELSE FileLists(n - 1) \cup
         {Append(l, f) : l \in {k \in FileLists(n - 1) : Len(k) = n - 1}, f \in FileNames}

FileListings == {l \in FileLists(MaxFiles) : NoRepeat(l)}

OtherIdle == UNCHANGED <<cmpt, session, rigFiles, scriptList, result, world, builder, emptied>>

Outcome(call, arg, got, fs) ==
    <<[call |-> call, arg |-> arg, raised |-> got.raised, value |-> got.value,
       unchanged |-> fs = disk]>>

FindRigFile ==
    \E archetype \in Range(ArchetypesListing) :
        /\ outcome = <<>>
        /\ outcome' = Outcome("findRigFile", archetype,
                              [raised |-> "",
                               value |-> findRigFile(disk, <<"archetypes", archetype>>)],
                              disk)
        /\ UNCHANGED disk
        /\ OtherIdle

GetAvailableArchetypes ==
    /\ outcome = <<>>
    /\ outcome' = Outcome("getAvailableArchetypes", "",
                          [raised |-> "", value |-> getAvailableArchetypesOn(disk)], disk)
    /\ UNCHANGED disk
    /\ OtherIdle

NewRigEnviornmentFromArchetype ==
    \E archetype \in ArchetypeArgs, rigName \in EnvNames :
        LET got == newRigEnviornmentFromArchetype(disk, "environments", archetype, rigName) IN
        /\ outcome = <<>>
        /\ disk' = got.fs
        /\ outcome' = Outcome("newRigEnviornmentFromArchetype", archetype, got, got.fs)
        /\ OtherIdle

InitArchetypes ==
    /\ cmpt = NewComponent(TRUE, "")
    /\ session = NewSession
    /\ rigFiles = <<>>
    /\ scriptList = <<>>
    /\ result = <<>>
    /\ \E listing \in FileListings, scriptKeys, hidden, dotted, taken \in BOOLEAN :
          disk = [archetypes |->
                      [archetype \in Range(ArchetypesListing) |->
                          CASE archetype = "biped" -> Directory(listing, scriptKeys)
                            [] archetype = ".hidden" ->
                                  Directory(IF hidden THEN <<"a.rig">> ELSE <<>>, TRUE)
                            [] archetype = "face.v2" ->
                                  Directory(IF dotted THEN <<"a.rig">> ELSE <<>>, TRUE)],
                  environments |->
                      [rigName \in EnvNames |->
                          IF taken THEN Directory(<<"hero.rig">>, TRUE) ELSE NoDirectory]]
    /\ outcome = <<>>
    /\ world = <<>>
    /\ builder = <<>>
    /\ emptied = {}

NextArchetypes ==
    \/ FindRigFile
    \/ GetAvailableArchetypes
    \/ NewRigEnviornmentFromArchetype

SpecArchetypes == InitArchetypes /\ [][NextArchetypes]_vars

(***************************************************************************)
(* The archetype claims.  Made is the last call on the disk.               *)
(***************************************************************************)
Made(call) == outcome # <<>> /\ outcome[1].call = call

\* The rig files at the top level of an archetype directory: the names with
\* the extension .rig that do not start with a dot.
RigFilesOf(archetype) ==
    LET listing == disk.archetypes[archetype].listing IN
    {i \in DOMAIN listing : ~startswithDot(listing[i]) /\ Extension(listing[i]) = ".rig"}

\* C15 (as claimed): findRigFile returns a rig file for a directory, and
\* getAvailableArchetypes lists the directory, if and only if the directory
\* holds exactly one rig file.
C15_ValidIffExactlyOneRigFile ==
    /\ Made("findRigFile") =>
          (outcome[1].value # False <=> Cardinality(RigFilesOf(outcome[1].arg)) = 1)
    /\ Made("getAvailableArchetypes") =>
          \A archetype \in Range(ArchetypesListing) :
              archetype \in Range(outcome[1].value)
                  <=> Cardinality(RigFilesOf(archetype)) = 1

\* C15 (amended): findRigFile returns a rig file for a directory if and only if
\* the directory's name has no extension and the directory holds at least one
\* rig file, and it returns the first of them in listing order;
\* getAvailableArchetypes lists exactly the directories for which it does so
\* and whose name does not start with a dot.
C15_ValidIffSomeRigFile ==
    /\ Made("findRigFile") =>
          LET archetype == outcome[1].arg
              listing == disk.archetypes[archetype].listing
          IN  /\ outcome[1].value # False
                    <=> (Extension(archetype) = "" /\ RigFilesOf(archetype) # {})
              /\ outcome[1].value # False =>
                    \E i \in RigFilesOf(archetype) :
                        /\ outcome[1].value = <<"archetypes", archetype, listing[i]>>
                        /\ \A j \in RigFilesOf(archetype) : i <= j
    /\ Made("getAvailableArchetypes") =>
          \A archetype \in Range(ArchetypesListing) :
              archetype \in Range(outcome[1].value)
                  <=> /\ ~startswithDot(archetype) /\ Extension(archetype) = ""
                      /\ RigFilesOf(archetype) # {}

\* C15 witness: findRigFile returned the first of the two rig files of a directory.
C15_Witness ==
    /\ Made("findRigFile") /\ outcome[1].arg = "biped"
    /\ Cardinality(RigFilesOf("biped")) = 2
    /\ outcome[1].value = <<"archetypes", "biped", disk.archetypes["biped"].listing[1]>>

\* The archetypes a caller can name: the directories of ARCHETYPES_PATH that
\* findRigFile accepts and whose name does not start with a dot.
Available(archetype) ==
    /\ archetype \in Range(ArchetypesListing)
    /\ ~startswithDot(archetype) /\ Extension(archetype) = ""
    /\ RigFilesOf(archetype) # {}

\* C16: newRigEnviornmentFromArchetype called with a name that is not an
\* available archetype raises RuntimeError, returns nothing and leaves every
\* directory of the disk as it was.
C16_UnknownArchetypeRaises ==
    (Made("newRigEnviornmentFromArchetype") /\ ~Available(outcome[1].arg)) =>
        /\ outcome[1].raised = "RuntimeError"
        /\ outcome[1].value = <<>>
        /\ outcome[1].unchanged

\* C16 witness: the call named an archetype that is not on the disk, or one
\* that is there but hidden, while the target directory was free.
C16_Witness ==
    /\ Made("newRigEnviornmentFromArchetype")
    /\ outcome[1].arg \in {"quadruped", ".hidden"}
    /\ outcome[1].raised = "RuntimeError"
    /\ \A rigName \in EnvNames : ~disk.environments[rigName].exists

(***************************************************************************)
(* Instances of one component class (maya/cmpts/base.py).                  *)
(*                                                                         *)
(* world.instances   the instances X and Y: the attributes each holds      *)
(*                   itself; defined tells that its _componentParameters   *)
(*                   holds the parameter "side", side is its own "side"    *)
(*                   attribute ("" when it has none)                       *)
(* world.containers  the containers of the scene, by component name, each  *)
(*                   with its build_step attribute and its metadata        *)
(* world.class       the attributes set on the class ("" when not set)     *)
(* world.written, world.defined   who last wrote the step of a name, who   *)
(*                   last defined the parameter, and what they wrote       *)
(* world.last        the last call                                         *)
(* The seven parameters of Base.__init__ are attributes of every instance, *)
(* which hide the class attributes of the same names; "side" stands for a  *)
(* parameter a component defines with defineParameter alone.               *)
(***************************************************************************)
MaxOps == 4

Ids == {"X", "Y"}
Names == {"arm", "leg"}
Sides == {"left", "right"}

NoInstance ==
    [exists |-> FALSE, name |-> "", container |-> "", enabled |-> FALSE,
     componentTag |-> "", params |-> NewComponent(FALSE, "").params,
     rootHierarchy |-> FALSE, defined |-> FALSE, side |-> ""]

NoContainer ==
    [exists |-> FALSE, hasStep |-> FALSE, build_step |-> UNBUILT_STEP,
     meta |-> NewComponent(FALSE, "").meta, side |-> "", tag |-> "", active |-> FALSE]

Last(call, id) ==
    [call |-> call, id |-> id, phase |-> 0, step |-> 0, enabled |-> FALSE, ran |-> FALSE,
     to |-> 0, before |-> [step |-> 0, by |-> ""], value |-> "", raised |-> ""]

EmptyWorld ==
    [instances |-> [id \in Ids |-> NoInstance],
     containers |-> [name \in Names |-> NoContainer],
     class |-> [side |-> ""],
     written |-> [name \in Names |-> [step |-> 0, by |-> ""]],
     defined |-> [by |-> "", value |-> ""],
     ops |-> 0,
     last |-> <<>>]

\* The container of a component, were it chosen by the instance.
ContainerOfInstance(id, name) == IF id = "X" THEN "arm" ELSE "leg"

\* self.container = self.name + '_container'
ContainerOf(id, name) == name

\* Base.__init__: the container is created when the scene has none of that
\* name; the constructor's parameters are written to its metadata either way.
construct(w, id, name, enabled, componentTag) ==
    LET new == NewComponent(enabled, componentTag)
        container == ContainerOf(id, name)
        old == w.containers[container]
    IN  [w EXCEPT
            !.instances[id] =
                [exists |-> TRUE, name |-> name, container |-> container,
                 enabled |-> new.enabled, componentTag |-> new.componentTag,
                 params |-> new.params, rootHierarchy |-> new.rootHierarchy,
                 defined |-> FALSE, side |-> ""],
            !.containers[container] =
                [(IF old.exists THEN old ELSE [NoContainer EXCEPT !.exists = TRUE])
                    EXCEPT !.meta = new.meta]]

\* Base.fromContainer: the constructor, with the parameters the container's
\* metadata holds.
fromContainer(w, id, container) ==
    construct(w, id, container, w.containers[container].meta.enabled,
              w.containers[container].meta.componentTag)

\* An instance and its container as the component the transitions work on.
Join(w, id) ==
    LET i == w.instances[id]
        k == w.containers[i.container]
    IN  [enabled |-> i.enabled, componentTag |-> i.componentTag, params |-> i.params,
         rootHierarchy |-> i.rootHierarchy, hasStep |-> k.hasStep,
         build_step |-> k.build_step, meta |-> k.meta, tag |-> k.tag,
         active |-> k.active, trace |-> <<>>]

Transition(phase, c) ==
    CASE phase = INTIALIZE_STEP -> initalizeComponent(c, 0)
      [] phase = GUIDE_STEP -> guideComponent(c, 0)
      [] phase = BUILD_STEP -> buildComponent(c, 0)
      [] phase = CONNECT_STEP -> connectComponent(c, 0)
      [] phase = FINALIZE_STEP -> finalizeComponent(c, 0)
      [] phase = OPTIMIZE_STEP -> optimizeComponent(c, 0)

\* The transitions that call _loadComponentParametersToClass.
Loads(phase) == phase \in {GUIDE_STEP, BUILD_STEP, CONNECT_STEP}

\* One transition called on an instance.
transition(w, id, phase) ==
    LET i == w.instances[id]
        k == w.containers[i.container]
        c == Transition(phase, Join(w, id))
        e == c.trace[1]
    IN  [w EXCEPT
            !.instances[id] =
                [i EXCEPT !.enabled = c.enabled, !.componentTag = c.componentTag,
                          !.params = c.params, !.rootHierarchy = c.rootHierarchy,
                          !.side = IF Loads(phase) /\ i.defined /\ k.side # ""
                                   THEN k.side ELSE @],
            !.containers[i.container] =
                [k EXCEPT !.hasStep = c.hasStep, !.build_step = c.build_step,
                          !.meta = c.meta, !.tag = c.tag, !.active = c.active],
            !.written[i.name] = IF e.ran /\ ~e.raised THEN [step |-> e.to, by |-> id] ELSE @,
            !.last = <<[Last("transition", id) EXCEPT
                           !.phase = phase, !.step = e.step, !.enabled = e.enabled,
                           !.ran = e.ran, !.to = e.to, !.before = w.written[i.name],
                           !.raised = IF e.raised THEN "Exception" ELSE ""]>>]

\* defineParameter storing the value on the instance.
defineParameterOnInstance(w, id, value) ==
    [w EXCEPT !.instances[id].defined = TRUE,
              !.containers[w.instances[id].container].side = value,
              !.instances[id].side = value,
              !.defined = [by |-> id, value |-> value]]

\* Base.defineParameter for the parameter "side": an entry of
\* _componentParameters, the container's metadata, and setattr on the class.
defineParameter(w, id, value) ==
    [w EXCEPT !.instances[id].defined = TRUE,
              !.containers[w.instances[id].container].side = value,
              !.class.side = value,
              !.defined = [by |-> id, value |-> value]]

\* instance.side: the instance's own attribute, else the class's, else
\* AttributeError.
getattr(w, id) ==
    IF w.instances[id].side # "" THEN [raised |-> "", value |-> w.instances[id].side]
    ELSE IF w.class.side # "" THEN [raised |-> "", value |-> w.class.side]
    ELSE [raised |-> "AttributeError", value |-> ""]

InstancesIdle ==
    UNCHANGED <<cmpt, session, rigFiles, scriptList, result, disk, outcome, builder, emptied>>

Does(w) ==
    /\ world.ops < MaxOps
    /\ world' = [w EXCEPT !.ops = @ + 1]
    /\ InstancesIdle

Construct ==
    \E name \in Names, enabled \in BOOLEAN :
        Does([construct(world, "Y", name, enabled, "") EXCEPT !.last = <<Last("__init__", "Y")>>])

FromContainer ==
    \E container \in Names :
        /\ world.containers[container].exists
        /\ Does([fromContainer(world, "Y", container) EXCEPT
                    !.last = <<Last("fromContainer", "Y")>>])

CallTransition ==
    \E id \in Ids, phase \in Phases :
        /\ world.instances[id].exists
        /\ Does(transition(world, id, phase))

DefineParameter ==
    \E id \in Ids, value \in Sides :
        /\ world.instances[id].exists
        /\ Does([defineParameter(world, id, value) EXCEPT
                    !.last = <<Last("defineParameter", id)>>])

GetAttr ==
    \E id \in Ids :
        /\ world.instances[id].exists
        /\ Does([world EXCEPT
                    !.last = <<[Last("getattr", id) EXCEPT
                                   !.value = getattr(world, id).value,
                                   !.raised = getattr(world, id).raised]>>])

InitInstances ==
    /\ cmpt = NewComponent(TRUE, "")
    /\ session = NewSession
    /\ rigFiles = <<>>
    /\ scriptList = <<>>
    /\ result = <<>>
    /\ disk = <<>>
    /\ outcome = <<>>
    /\ \E enabled \in BOOLEAN : world = construct(EmptyWorld, "X", "arm", enabled, "")
    /\ builder = <<>>
    /\ emptied = {}

NextInstances ==
    \/ Construct
    \/ FromContainer
    \/ CallTransition
    \/ DefineParameter
    \/ GetAttr

SpecInstances == InitInstances /\ [][NextInstances]_vars

(***************************************************************************)
(* The instance claims.                                                    *)
(***************************************************************************)
Did(call) == world.last # <<>> /\ world.last[1].call = call

\* C18: the build step belongs to the container the component's name selects,
\* not to the instance: every instance reads the step last written under its
\* name, whichever instance wrote it, and the gate of a transition called on
\* it is decided by that step.
C18_StepKeyedByName ==
    /\ \A id \in Ids :
          world.instances[id].exists =>
              getStep(Join(world, id)) = world.written[world.instances[id].name].step
    /\ Did("transition") =>
          LET l == world.last[1] IN
          /\ l.step = l.before.step
          /\ l.ran <=> IF l.phase = OPTIMIZE_STEP THEN l.step # OPTIMIZE_STEP
                       ELSE l.step < l.phase /\ l.enabled

\* C18 witness: X took the component "arm" to a step; Y, a second instance of
\* that name, was then called for a transition up to that step and skipped it.
C18_Witness ==
    /\ Did("transition") /\ world.last[1].id = "Y"
    /\ world.instances["Y"].name = world.instances["X"].name
    /\ world.last[1].before.by = "X"
    /\ world.last[1].before.step >= BUILD_STEP
    /\ world.last[1].phase <= world.last[1].step
    /\ world.last[1].enabled /\ ~world.last[1].ran

\* C19: once an instance has defined the parameter, an instance of the class
\* that has no attribute of that name itself reads the value last defined.
C19_ParameterReadThroughClass ==
    (/\ Did("getattr")
     /\ world.instances[world.last[1].id].side = ""
     /\ world.defined.by # "") =>
        /\ world.last[1].raised = ""
        /\ world.last[1].value = world.defined.value

\* C19 witness: X defined the parameter; Y, a component of another name that
\* never defined it, read X's value.
C19_Witness ==
    /\ Did("getattr") /\ world.last[1].id = "Y"
    /\ world.defined.by = "X"
    /\ ~world.instances["Y"].defined /\ world.instances["Y"].side = ""
    /\ world.instances["Y"].name # world.instances["X"].name
    /\ world.last[1].value = world.defined.value /\ world.last[1].value # ""

(***************************************************************************)
(* newRigEnviornmentFromArchetype and the scripts of the new rig           *)
(* (core.py).  The archetypes A and B lie on disk, each rig file with a    *)
(* list under the pre- and the post-script key and, or not, under the      *)
(* publish-script key; B names A as its base, or none.  The new rig is C.  *)
(* createRigEnviornment copies the archetype's directory, so the new rig   *)
(* file holds the archetype's lists and the new directory its script       *)
(* files and folders.                                                      *)
(***************************************************************************)
NewRigName == "C"

ArchetypeFile(keys, pre, post, pub, base) ==
    [key \in keys |->
        CASE key = PRE_SCRIPT -> pre
          [] key = POST_SCRIPT -> post
          [] key = PUB_SCRIPT -> pub
          [] OTHER -> base]

ArchetypeFiles(keySets) ==
    {ArchetypeFile(keys, pre, post, pub, "A") :
        keys \in keySets, pre \in ScriptLists,
        post \in {<<"dir">>, <<"a.py", "dir">>}, pub \in {<<"dir">>, <<>>}}

\* The loop that removes the files of the script folders: for each script key
\* the first entry of its list is taken for a folder of the new environment
\* and the files glob finds in it are removed.
RECURSIVE removeScripts(_, _, _, _)
removeScripts(files, gone, rigName, scriptTypes) ==
    IF scriptTypes = <<>> THEN [raised |-> "", emptied |-> gone]
    ELSE LET scriptType == Head(scriptTypes) IN
         IF scriptType \notin DOMAIN files[rigName]
         THEN [raised |-> "KeyError", emptied |-> gone]
         ELSE IF files[rigName][scriptType] = <<>>
         THEN [raised |-> "IndexError", emptied |-> gone]
         ELSE LET first == files[rigName][scriptType][1] IN
              removeScripts(files,
                            IF first \in DirEntries THEN gone \cup {<<rigName, first>>}
                            ELSE gone,
                            rigName, Tail(scriptTypes))

\* core.newRigEnviornmentFromArchetype, on rig files with their script lists.
newRigEnviornmentFromArchetypeScripts(files, gone, archetype, rigName) ==
    IF archetype \notin getAvailableArchetypes(files)
    THEN [raised |-> "RuntimeError", files |-> files, emptied |-> gone]
    ELSE IF rigName \in DOMAIN files
    THEN [raised |-> "FileExistsError", files |-> files, emptied |-> gone]
    ELSE LET copied == [key \in DOMAIN files[archetype] \cup {BASE_ARCHETYPE} |->
                           IF key = BASE_ARCHETYPE THEN archetype
                           ELSE files[archetype][key]]
             written == [rig \in DOMAIN files \cup {rigName} |->
                            IF rig = rigName THEN copied ELSE files[rig]]
             removed == removeScripts(written, gone, rigName,
                                      <<PRE_SCRIPT, POST_SCRIPT, PUB_SCRIPT>>)
         IN [raised |-> removed.raised, files |-> written, emptied |-> removed.emptied]

NewEnvIdle == UNCHANGED <<cmpt, session, disk, world, builder>>

NewRigEnviornmentFromArchetypeScripts ==
    \E archetype \in RigNames :
        LET got == newRigEnviornmentFromArchetypeScripts(rigFiles, emptied, archetype,
                                                         NewRigName) IN
        /\ outcome = <<>>
        /\ rigFiles' = got.files
        /\ emptied' = got.emptied
        /\ outcome' = <<[call |-> "newRigEnviornmentFromArchetype", arg |-> archetype,
                         raised |-> got.raised]>>
        /\ UNCHANGED <<scriptList, result>>
        /\ NewEnvIdle

GetScriptListOfRig ==
    \E rigFile \in RigNames, scriptType \in {PRE_SCRIPT, POST_SCRIPT, PUB_SCRIPT} :
        LET got == getScriptList(rigFiles, rigFile, scriptType) IN
        /\ scriptList' = got.scriptList
        /\ result' = <<[rigFile |-> rigFile, scriptType |-> scriptType,
                        raised |-> got.raised, value |-> got.value,
                        after |-> scriptList # <<>>]>>
        /\ UNCHANGED <<rigFiles, emptied, outcome>>
        /\ NewEnvIdle

InitNewEnv ==
    /\ cmpt = NewComponent(TRUE, "")
    /\ session = NewSession
    /\ \E a \in ArchetypeFiles({{PRE_SCRIPT, POST_SCRIPT},
                                {PRE_SCRIPT, POST_SCRIPT, PUB_SCRIPT}}),
          b \in ArchetypeFiles({{PRE_SCRIPT, POST_SCRIPT, PUB_SCRIPT},
                                {PRE_SCRIPT, POST_SCRIPT, PUB_SCRIPT, BASE_ARCHETYPE}}) :
           rigFiles = [rig \in ArchetypeDirs |-> IF rig = "A" THEN a ELSE b]
    /\ scriptList = <<>>
    /\ result = <<>>
    /\ disk = <<>>
    /\ outcome = <<>>
    /\ world = <<>>
    /\ builder = <<>>
    /\ emptied = {}

NextNewEnv ==
    \/ NewRigEnviornmentFromArchetypeScripts
    \/ GetScriptListOfRig

SpecNewEnv == InitNewEnv /\ [][NextNewEnv]_vars

\* getScriptList returned for the new rig, made from archetype Origin.
OfNewRig ==
    /\ outcome # <<>> /\ outcome[1].raised = ""
    /\ result # <<>> /\ result[1].rigFile = NewRigName /\ result[1].raised = ""

Origin == outcome[1].arg

\* C22 (as claimed): the rig file newRigEnviornmentFromArchetype made names the
\* archetype as its base, no script getScriptList returns for the new rig lies
\* in the new environment, and what it returns are the archetype's scripts.
C22_NewRigAddsNoScript ==
    OfNewRig =>
        /\ rigFiles[NewRigName][BASE_ARCHETYPE] = Origin
        /\ \A i \in DOMAIN result[1].value : result[1].value[i][1] # NewRigName
        /\ result[1].value = getScriptList(rigFiles, Origin, result[1].scriptType).value

\* C22 for a script list of one entry, a folder.
C22_NewRigAddsNoScriptOneFolder ==
    (/\ OfNewRig
     /\ Len(rigFiles[Origin][result[1].scriptType]) = 1
     /\ rigFiles[Origin][result[1].scriptType][1] \in DirEntries) =>
        /\ rigFiles[NewRigName][BASE_ARCHETYPE] = Origin
        /\ \A i \in DOMAIN result[1].value : result[1].value[i][1] # NewRigName
        /\ result[1].value = getScriptList(rigFiles, Origin, result[1].scriptType).value

(***************************************************************************)
(* The Builder (maya/rig_builder/builder.py): its cmpt_list and the scene. *)
(*                                                                         *)
(* builder.cmpt_list   the components, each with its name, its             *)
(*                     componentType, whether its class provides the names *)
(*                     the Builder calls (_intialize_cmpt, _build_cmpt,    *)
(*                     _connect_cmpt, _finalize_cmpt, cmpt_type: Base has  *)
(*                     none of them) and the component itself              *)
(* builder.containers  the names whose container exists in the scene       *)
(* builder.log         the calls the Builder made on components during the *)
(*                     call, in order: <<index, phase>> or                 *)
(*                     <<index, "deleteSetup">>                            *)
(* builder.raised      the exception that ended the call, "" when none     *)
(* builder.last        the call made, with its arguments and cmpt_list and *)
(*                     the containers as they were when it was made        *)
(* The components of a cmpt_list have different names, as the components   *)
(* file keys them by name.                                                 *)
(***************************************************************************)
MaxCmpts == 2

BuilderNames == {"arm", "leg", "spine"}

ComponentTypes == {"main.Main", "arm.Arm"}

\* A component as load_components constructs it.
Loaded(name, componentType, provides) ==
    [name |-> name, componentType |-> componentType, provides |-> provides,
     c |-> NewComponent(TRUE, "")]

NamesOf(list) == {list[i].name : i \in DOMAIN list}

RECURSIVE CmptLists(_)
CmptLists(n) ==
    IF n = 0 THEN {<<>>}
    ELSE CmptLists(n - 1) \cup
         UNION {{Append(l, Loaded(name, componentType, provides)) :
                    name \in BuilderNames \ NamesOf(l),
                    componentType \in ComponentTypes, provides \in BOOLEAN} :
                l \in {k \in CmptLists(n - 1) : Len(k) = n - 1}}

NewBuilder(list, containers) ==
    [cmpt_list |-> list, containers |-> containers, log |-> <<>>, raised |-> "",
     value |-> 0, last |-> <<>>]

\* One of the transitions of Base, by its target step.
applyTransition(c, phase, f) ==
    CASE phase = INTIALIZE_STEP -> initalizeComponent(c, f)
      [] phase = GUIDE_STEP -> guideComponent(c, f)
      [] phase = BUILD_STEP -> buildComponent(c, f)
      [] phase = CONNECT_STEP -> connectComponent(c, f)
      [] phase = FINALIZE_STEP -> finalizeComponent(c, f)
      [] phase = OPTIMIZE_STEP -> optimizeComponent(c, f)

\* cmpt._intialize_cmpt(), cmpt._build_cmpt(), cmpt._connect_cmpt() or
\* cmpt._finalize_cmpt() on component i: AttributeError when its class does
\* not provide the name.  Input fail = <<i, phase>>: the first hook of that
\* transition of that component raises.
callCmpt(b, i, phase, fail) ==
    IF b.raised # "" THEN b
    ELSE IF ~b.cmpt_list[i].provides THEN [b EXCEPT !.raised = "AttributeError"]
    ELSE LET c == applyTransition(b.cmpt_list[i].c, phase,
                                  IF fail = <<i, phase>> THEN 1 ELSE 0)
         IN [b EXCEPT !.cmpt_list[i].c = c,
                      !.log = Append(@, <<i, phase>>),
                      !.raised = IF Raised(c) THEN "hook" ELSE ""]

\* The loop of Builder.initalize, build, connect and finalize over cmpt_list,
\* from component i on.
RECURSIVE forEachCmpt(_, _, _, _)
forEachCmpt(b, phase, i, fail) ==
    IF i > Len(b.cmpt_list) THEN b
    ELSE forEachCmpt(callCmpt(b, i, phase, fail), phase, i + 1, fail)

\* Builder.load_component_settings after load_components: cmpt.loadSettings
\* with what the components file holds under the component's name.
RECURSIVE load_component_settings(_, _, _)
load_component_settings(b, data, i) ==
    IF b.raised # "" \/ i > Len(b.cmpt_list) THEN b
    ELSE load_component_settings(
             [b EXCEPT !.cmpt_list[i].c = loadSettings(@, data[b.cmpt_list[i].name])],
             data, i + 1)

\* Builder.run, from initalize to finalize.
Builder_run(b, data, fail) ==
    LET b1 == forEachCmpt(b, INTIALIZE_STEP, 1, fail)
        bs == load_component_settings(b1, data, 1)
        b3 == forEachCmpt(bs, BUILD_STEP, 1, fail)
        b4 == forEachCmpt(b3, CONNECT_STEP, 1, fail)
    IN forEachCmpt(b4, FINALIZE_STEP, 1, fail)

\* Base.deleteSetup on component i: its container is deleted.
deleteSetup(b, i) ==
    [b EXCEPT !.containers = @ \ {b.cmpt_list[i].name},
              !.log = Append(@, <<i, "deleteSetup">>)]

\* The loop of delete_cmpts from component i on; main_cmpt is the index of
\* the component the loop has kept for the end, 0 when none.
RECURSIVE deleteLoop(_, _, _)
deleteLoop(b, i, main_cmpt) ==
    IF i > Len(b.cmpt_list) THEN [b |-> b, main_cmpt |-> main_cmpt]
    ELSE IF b.cmpt_list[i].name \in b.containers
         THEN IF b.cmpt_list[i].componentType = "main.Main"
              THEN deleteLoop(b, i + 1, i)
              ELSE deleteLoop(deleteSetup(b, i), i + 1, main_cmpt)
         ELSE deleteLoop(b, i + 1, main_cmpt)

delete_cmpts(b, clear_list) ==
    LET looped == deleteLoop(b, 1, 0)
        torn == IF looped.main_cmpt # 0 THEN deleteSetup(looped.b, looped.main_cmpt)
                ELSE looped.b
    IN IF clear_list THEN [torn EXCEPT !.cmpt_list = <<>>] ELSE torn

\* Builder.find_cmpt from component i on: the loop reads cmpt.cmpt_type, and
\* the warning after the loop formats cmpt_type, a name the function does
\* not bind.  value is the index of the component returned, 0 for none.
RECURSIVE find_cmpt(_, _, _, _)
find_cmpt(list, name, type, i) ==
    IF i > Len(list) THEN [raised |-> "NameError", value |-> 0]
    ELSE IF ~list[i].provides THEN [raised |-> "AttributeError", value |-> 0]
    ELSE IF name = list[i].name /\ type = list[i].componentType
         THEN [raised |-> "", value |-> i]
         ELSE find_cmpt(list, name, type, i + 1)

build_single_cmpt(b, name, type, fail) ==
    LET found == find_cmpt(b.cmpt_list, name, type, 1)
        i == found.value
        Fail(phase) == IF fail = phase THEN <<i, phase>> ELSE <<0, 0>>
    IN IF found.raised # "" THEN [b EXCEPT !.raised = found.raised]
       ELSE IF i = 0 THEN b
       ELSE LET b1 == callCmpt(b, i, INTIALIZE_STEP, Fail(INTIALIZE_STEP))
                b3 == callCmpt(b1, i, BUILD_STEP, Fail(BUILD_STEP))
                b4 == callCmpt(b3, i, CONNECT_STEP, Fail(CONNECT_STEP))
            IN [callCmpt(b4, i, FINALIZE_STEP, Fail(FINALIZE_STEP)) EXCEPT !.value = i]

\* What a components file holds for the components of a list.
BuilderSettings(list) ==
    [NamesOf(list) -> {data \in SavedSettings : data.componentTag = ""}]

BuilderIdle ==
    UNCHANGED <<cmpt, session, rigFiles, scriptList, result, disk, outcome, world,
                emptied>>

Calls(call, args, b) ==
    /\ builder.last = <<>>
    /\ builder' = [b EXCEPT !.last = <<[call |-> call, args |-> args,
                                        cmpt_list |-> builder.cmpt_list,
                                        containers |-> builder.containers]>>]
    /\ BuilderIdle

\* Builder.run: load_components has just constructed the components, so
\* every container exists.
BuilderRun ==
    \E data \in BuilderSettings(builder.cmpt_list),
       i \in 0..Len(builder.cmpt_list), phase \in RunPhases :
        /\ builder.containers = NamesOf(builder.cmpt_list)
        /\ Calls("run", <<>>, Builder_run(builder, data, <<i, phase>>))

DeleteCmpts ==
    \E clear_list \in BOOLEAN :
        Calls("delete_cmpts", <<clear_list>>, delete_cmpts(builder, clear_list))

FindCmpt ==
    \E name \in BuilderNames, type \in ComponentTypes :
        LET found == find_cmpt(builder.cmpt_list, name, type, 1) IN
        Calls("find_cmpt", <<name, type>>,
               [builder EXCEPT !.raised = found.raised, !.value = found.value])

BuildSingleCmpt ==
    \E name \in BuilderNames, type \in ComponentTypes, fail \in {0} \cup RunPhases :
        /\ builder.containers = NamesOf(builder.cmpt_list)
        /\ Calls("build_single_cmpt", <<name, type>>,
                  build_single_cmpt(builder, name, type, fail))

InitBuilder ==
    /\ cmpt = NewComponent(TRUE, "")
    /\ session = NewSession
    /\ rigFiles = <<>>
    /\ scriptList = <<>>
    /\ result = <<>>
    /\ disk = <<>>
    /\ outcome = <<>>
    /\ world = <<>>
    /\ \E list \in CmptLists(MaxCmpts) :
           \E containers \in SUBSET NamesOf(list) :
               builder = NewBuilder(list, containers)
    /\ emptied = {}

NextBuilder ==
    \/ BuilderRun
    \/ DeleteCmpts
    \/ FindCmpt
    \/ BuildSingleCmpt

SpecBuilder == InitBuilder /\ [][NextBuilder]_vars

BuilderLast == builder.last[1]

\* The calls Builder.run makes on n components when every call returns: each
\* of the phases 1, 3, 4, 5 on every component in cmpt_list order before the
\* next phase on any.
PhaseMajor(n) ==
    LET OnAll(phase) == [i \in 1..n |-> <<i, phase>>]
    IN OnAll(INTIALIZE_STEP) \o OnAll(BUILD_STEP) \o OnAll(CONNECT_STEP)
       \o OnAll(FINALIZE_STEP)

\* C26 (as claimed): Builder.run in which no hook raises applies each phase to
\* every component, in cmpt_list order, before the next phase to any.
C26_PhaseByPhase ==
    (builder.last # <<>> /\ BuilderLast.call = "run" /\ builder.raised # "hook") =>
        builder.log = PhaseMajor(Len(builder.cmpt_list))

\* C26 for components whose classes all provide the names Builder calls.
C26_PhaseByPhaseWhenProvided ==
    (/\ builder.last # <<>> /\ BuilderLast.call = "run" /\ builder.raised # "hook"
     /\ \A i \in DOMAIN builder.cmpt_list : builder.cmpt_list[i].provides) =>
        /\ builder.raised = ""
        /\ builder.log = PhaseMajor(Len(builder.cmpt_list))

\* The components of the list whose container existed when the call was made,
\* and those of them that are main.Main.
Existing == {i \in DOMAIN BuilderLast.cmpt_list :
                BuilderLast.cmpt_list[i].name \in BuilderLast.containers}

Mains == {i \in Existing : BuilderLast.cmpt_list[i].componentType = "main.Main"}

TornDown(i) == Cardinality({k \in DOMAIN builder.log : builder.log[k] = <<i, "deleteSetup">>})

\* C27 (as claimed): delete_cmpts calls deleteSetup once on every component
\* whose container exists and on no other, on a main.Main component after all
\* the others, and with clear_list = True leaves cmpt_list empty.
C27_EachTornDownOnce ==
    (builder.last # <<>> /\ BuilderLast.call = "delete_cmpts") =>
        /\ \A i \in DOMAIN BuilderLast.cmpt_list :
              TornDown(i) = IF i \in Existing THEN 1 ELSE 0
        /\ \A j, k \in DOMAIN builder.log :
              (builder.log[j][1] \in Mains /\ builder.log[k][1] \notin Mains) => k < j
        /\ BuilderLast.args[1] => builder.cmpt_list = <<>>

\* C27 for a cmpt_list in which at most one main.Main component has a container.
C27_EachTornDownOnceOneMain ==
    (builder.last # <<>> /\ BuilderLast.call = "delete_cmpts" /\ Cardinality(Mains) <= 1) =>
        /\ \A i \in DOMAIN BuilderLast.cmpt_list :
              TornDown(i) = IF i \in Existing THEN 1 ELSE 0
        /\ \A j, k \in DOMAIN builder.log :
              (builder.log[j][1] \in Mains /\ builder.log[k][1] \notin Mains) => k < j
        /\ BuilderLast.args[1] => builder.cmpt_list = <<>>
        /\ builder.raised = ""

\* The components of the list that have the name and the type asked for.
Matches ==
    {i \in DOMAIN BuilderLast.cmpt_list :
        /\ BuilderLast.cmpt_list[i].name = BuilderLast.args[1]
        /\ BuilderLast.cmpt_list[i].componentType = BuilderLast.args[2]}

\* C29 (as claimed): find_cmpt returns the first component whose name and type
\* match and, when none matches, returns None without raising;
\* build_single_cmpt for a name and type that match nothing returns without
\* having called a transition or changed a component.
C29_FirstMatchOrNone ==
    /\ (builder.last # <<>> /\ BuilderLast.call = "find_cmpt") =>
          /\ builder.raised = ""
          /\ builder.value = IF Matches = {} THEN 0
                             ELSE CHOOSE i \in Matches : \A j \in Matches : i <= j
    /\ (builder.last # <<>> /\ BuilderLast.call = "build_single_cmpt" /\ Matches = {}) =>
          /\ builder.raised = ""
          /\ builder.log = <<>>
          /\ builder.cmpt_list = BuilderLast.cmpt_list

\* C29 with the exceptions left aside: when find_cmpt returns, it returns the
\* first match, and build_single_cmpt for no match calls no transition and
\* changes no component.
C29_NoMatchNoTransition ==
    /\ (builder.last # <<>> /\ BuilderLast.call = "find_cmpt" /\ builder.raised = "") =>
          /\ Matches # {}
          /\ builder.value = CHOOSE i \in Matches : \A j \in Matches : i <= j
    /\ (builder.last # <<>> /\ BuilderLast.call = "build_single_cmpt" /\ Matches = {}) =>
          /\ builder.raised \in {"NameError", "AttributeError"}
          /\ builder.log = <<>>
          /\ builder.cmpt_list = BuilderLast.cmpt_list

====
